---------------------------- MODULE Spec2Model ----------------------------
(***************************************************************************)
(* The nlcd demo pipeline (src/pipelines/pipeline.py): a driver that runs  *)
(* the stages STEPS[first_step..last_step] one after another over a work   *)
(* directory of per-origin checkpoint files.                               *)
(*                                                                         *)
(* The work directory is modelled as the record fs; a checkpoint file is a *)
(* sequence of length one holding its JSON value, and the empty sequence   *)
(* is a file that was opened for writing and never written.  Origins are   *)
(* numbered from 0 as enumerate() does.  Ratios are in tenths (6 is 0.6).  *)
(* The husky.* collaborators are deterministic functions of their inputs.  *)
(***************************************************************************)
EXTENDS Integers, Sequences, FiniteSets, TLC

\* ------------------------------------------------------------- bounds
MaxOrigins == 2

MaxRuns == 2

MaxTokens == 4

MaxLinks == 3

MaxEntries == 3

\* ------------------------------------------------- program constants
NumSteps == 9

DefaultLastStep == 10

ORIGIN_HTML_DIR == 2

ORIGIN_BODY_DIR == 3

ORIGIN_SEGMENT_DIR == 4

ORIGIN_GSE_DIR == 5

RELATED_LINKS_DIR == 6

CROSSREF_IN_DATA_DIR == 7

CROSSREF_OUT_DATA_DIR == 8

Dirs == ORIGIN_HTML_DIR..CROSSREF_OUT_DATA_DIR

VARIABLES
    args,             \* [first_step, last_step, nlcd_conf_file]
    origins_file,     \* the lines of args.origins_file_path
    fs,               \* args.work_dir
    status,           \* "running", "done", "raised" or "crashed"
    step_i,           \* the driver loop's step_i
    pc,               \* the place inside the running stage, "driver" between stages
    i,                \* the stage's origin index
    origins,          \* the stage's local list of origin urls
    origin_responses, \* step 2's fetched responses
    started,          \* the stages the driver has announced ("Starting step #%d")
    fetched,          \* the urls handed to fetcher.fetch_urls so far
    runs              \* the outcomes of the earlier executions of this command line

vars == <<args, origins_file, fs, status, step_i, pc, i, origins,
          origin_responses, started, fetched, runs>>

\* ------------------------------------------------------------ helpers
Range(s) == {s[n] : n \in 1..Len(s)}

\* Some fixed enumeration of a finite set: the iteration order of a Python set.
RECURSIVE SetToSeq(_)
SetToSeq(S) ==
    IF S = {} THEN <<>>
    ELSE LET x == CHOOSE y \in S : TRUE IN <<x>> \o SetToSeq(S \ {x})

File(data) == <<data>>

EmptyFile == <<>>

NoFiles == <<>>

NoDir == [exists |-> FALSE, files |-> NoFiles]

EmptyDir == [exists |-> TRUE, files |-> NoFiles]

NoWorkDir ==
    [exists |-> FALSE, origin_url |-> EmptyFile, dirs |-> [d \in Dirs |-> NoDir]]

\* open(os.path.join(dir, "%d.json" % n), "rb") succeeds
HasFile(f, d, n) == f.exists /\ f.dirs[d].exists /\ n \in DOMAIN f.dirs[d].files

\* json.load succeeds on the file
Loadable(f, d, n) == HasFile(f, d, n) /\ f.dirs[d].files[n] # EmptyFile

Load(f, d, n) == f.dirs[d].files[n][1]

\* open(path, "wb"): the file exists and is empty
Opened(f, d, n) ==
    [f EXCEPT !.dirs[d].files =
        [m \in (DOMAIN f.dirs[d].files) \cup {n} |->
            IF m = n THEN EmptyFile ELSE f.dirs[d].files[m]]]

\* open(path, "wb") followed by json_dump(data, fl)
Written(f, d, n, data) ==
    [f EXCEPT !.dirs[d].files =
        [m \in (DOMAIN f.dirs[d].files) \cup {n} |->
            IF m = n THEN File(data) ELSE f.dirs[d].files[m]]]

\* ------------------------------------------------------ collaborators
OriginUrls == {"oa", "ob", "ox"}

Urls == {"u1", "u2", "u3", "ub", "ux"}

None == "None"

\* PageFetcher: the page behind a url; None is a failed fetch.
PageOf(url) ==
    CASE url = "oa" -> "html_a"
      [] url = "ob" -> "html_b"
      [] url = "ox" -> "html_x"
      [] url = "u1" -> "html_1"
      [] url = "u2" -> "html_2"
      [] url = "ub" -> "html_1"
      [] url = "ux" -> "html_x"
      [] OTHER -> None

\* TextUtil.extract_body(url, html): raises on the malformed page.
extract_body(url, html) ==
    [raised |-> html = "html_x",
     body |-> CASE html = "html_a" -> "body_a"
                [] html = "html_b" -> "body_b"
                [] html = "html_1" -> "Body_1"
                [] html = "html_2" -> "body_2"
                [] OTHER -> "",
     lang_id |-> "en"]

\* TextUtil.simplified_text: case folding; idempotent.
simplified_text(text) ==
    CASE text = "Ab" -> "ab"
      [] text = "Body_1" -> "body_1"
      [] OTHER -> text

\* TextUtil.select_segments(sent_tokenize(body), extract_quoted(body))
select_segments(body) ==
    CASE body = "body_a" -> <<"Ab", "cd">>
      [] body = "body_b" -> <<"ab">>
      [] OTHER -> <<>>

\* One item of a search result: its link and the annotation found with it.
Item(url, snippet) == [link |-> url, snippet |-> snippet]

\* gse_api.find_results(make_query(segment)): the items found for a segment.
find_results(segment) ==
    CASE segment = "Ab" -> <<Item("u1", "Ab"), Item("ub", "Ab")>>
      [] segment = "cd" -> <<Item("u2", "cd"), Item("u1", "cd")>>
      [] segment = "ab" -> <<Item("u1", "ab"), Item("u3", "ab")>>
      [] OTHER -> <<>>

\* ------------------------------------------------------------- driver
\* The range test told as the variant without the upper end.
InRangeLowerOnly(s) == args.first_step <= s

\* first_step <= step_i <= last_step
InRange(s) == args.first_step <= s /\ s <= args.last_step

EntryPc(s) ==
    CASE s = 1 -> "clean"
      [] s = 2 -> "clean"
      [] s = 5 -> "conf"
      [] s = 8 -> "clean"
      [] OTHER -> "read"

Locals == <<i, origins, origin_responses>>

ResetLocals == i' = 0 /\ origins' = <<>> /\ origin_responses' = <<>>

\* An uncaught exception: it leaves the stage and the driver loop.
Raised ==
    /\ status' = "raised"
    /\ UNCHANGED <<args, origins_file, step_i, pc, started, runs>>

Raise == Raised /\ UNCHANGED fetched

\* The stage function returns to the driver loop.
Return ==
    /\ pc' = "driver"
    /\ step_i' = step_i + 1
    /\ ResetLocals
    /\ UNCHANGED <<args, origins_file, status, started, fetched, runs>>

Going(p) ==
    /\ pc' = p
    /\ UNCHANGED <<args, origins_file, status, step_i, started, runs>>

Goto(p) == Going(p) /\ UNCHANGED fetched

\* The next round of the stage's loop over the origins.
NextOrigin ==
    /\ i' = i + 1
    /\ UNCHANGED <<origins, origin_responses>>

At(s, p) == status = "running" /\ step_i = s /\ pc = p

DriverSkip ==
    /\ At(step_i, "driver")
    /\ step_i <= NumSteps
    /\ ~InRange(step_i)
    /\ step_i' = step_i + 1
    /\ UNCHANGED <<args, origins_file, fs, status, pc, Locals, started, fetched, runs>>

DriverStart ==
    /\ At(step_i, "driver")
    /\ step_i <= NumSteps
    /\ InRange(step_i)
    /\ started' = Append(started, step_i)
    /\ pc' = EntryPc(step_i)
    /\ UNCHANGED <<args, origins_file, fs, status, step_i, Locals, fetched, runs>>

DriverExit ==
    /\ At(NumSteps + 1, "driver")
    /\ status' = "done"
    /\ UNCHANGED <<args, origins_file, fs, step_i, pc, Locals, started, fetched, runs>>

\* ------------------------------------------------------ clean_directory
\* clean_directory told as the variant that keeps an existing directory.
clean_directory_keeps(f, d) ==
    IF f.dirs[d].exists THEN f ELSE [f EXCEPT !.dirs[d] = EmptyDir]

\* rm -rf path; os.mkdir(path).  os.mkdir raises when the parent is missing.
clean_directory(f, d) == [f EXCEPT !.dirs[d] = EmptyDir]

clean_work_dir(f) ==
    [exists |-> TRUE, origin_url |-> EmptyFile, dirs |-> [d \in Dirs |-> NoDir]]

\* clean_directory(dir) as a step of stage s, going on at place p
CleanStep(s, d, p) ==
    /\ At(s, "clean")
    /\ IF fs.exists
       THEN fs' = clean_directory(fs, d) /\ Goto(p) /\ UNCHANGED Locals
       ELSE Raise /\ UNCHANGED <<fs, Locals>>

\* read_origins(args) as a step of stage s, going on at place p
ReadStep(s, p) ==
    /\ At(s, "read")
    /\ IF fs.exists /\ fs.origin_url # EmptyFile
       THEN /\ origins' = fs.origin_url[1]
            /\ i' = 0
            /\ Goto(p)
            /\ UNCHANGED <<fs, origin_responses>>
       ELSE Raise /\ UNCHANGED <<fs, Locals>>

LoopDone == i >= Len(origins)

url_i == origins[i + 1]

\* -------------------------------------------------------------- step 1
step_1_clean ==
    /\ At(1, "clean")
    /\ fs' = clean_work_dir(fs)
    /\ Goto("copy")
    /\ UNCHANGED Locals

step_1_copy ==
    /\ At(1, "copy")
    /\ fs' = [fs EXCEPT !.origin_url = File(origins_file)]
    /\ Return

\* -------------------------------------------------------------- step 2
step_2_clean == CleanStep(2, ORIGIN_HTML_DIR, "read")

step_2_fetch ==
    /\ At(2, "read")
    /\ IF fs.exists /\ fs.origin_url # EmptyFile
       THEN /\ origins' = fs.origin_url[1]
            /\ origin_responses' =
                  [n \in 1..Len(fs.origin_url[1]) |-> PageOf(fs.origin_url[1][n])]
            /\ i' = 0
            /\ Goto("loop")
            /\ UNCHANGED fs
       ELSE Raise /\ UNCHANGED <<fs, Locals>>

step_2_write ==
    /\ At(2, "loop")
    /\ ~LoopDone
    /\ fs' = Written(fs, ORIGIN_HTML_DIR, i, origin_responses[i + 1])
    /\ NextOrigin
    /\ Goto("loop")

step_2_return == At(2, "loop") /\ LoopDone /\ Return /\ UNCHANGED fs

\* -------------------------------------------------------------- step 3
step_3_read == ReadStep(3, "clean")

step_3_clean == CleanStep(3, ORIGIN_BODY_DIR, "loop")

\* The value step 3 writes for an origin with this html.
BodyRecord(u, html) ==
    LET r == extract_body(u, html) IN [body |-> r.body, lang_id |-> r.lang_id]

step_3_origin ==
    /\ At(3, "loop")
    /\ ~LoopDone
    /\ IF /\ HasFile(fs, ORIGIN_HTML_DIR, i)
          /\ ~extract_body(url_i, Load(fs, ORIGIN_HTML_DIR, i)).raised
       THEN /\ fs' = Written(fs, ORIGIN_BODY_DIR, i,
                             BodyRecord(url_i, Load(fs, ORIGIN_HTML_DIR, i)))
            /\ NextOrigin
            /\ Goto("loop")
       ELSE Raise /\ UNCHANGED <<fs, Locals>>

step_3_return == At(3, "loop") /\ LoopDone /\ Return /\ UNCHANGED fs

\* -------------------------------------------------------------- step 4
step_4_read == ReadStep(4, "clean")

step_4_clean == CleanStep(4, ORIGIN_SEGMENT_DIR, "loop")

\* The value step 4 writes for an origin with this body record.
SegmentRecord(u, body_obj) ==
    [url |-> u, text |-> body_obj.body, lang_id |-> body_obj.lang_id,
     segments |-> select_segments(body_obj.body)]

\* open(i_body_fp), json.load, open(o_segment_fp, "wb")
step_4_open ==
    /\ At(4, "loop")
    /\ ~LoopDone
    /\ IF Loadable(fs, ORIGIN_BODY_DIR, i)
       THEN /\ fs' = Opened(fs, ORIGIN_SEGMENT_DIR, i)
            /\ Goto("dump")
            /\ UNCHANGED Locals
       ELSE Raise /\ UNCHANGED <<fs, Locals>>

step_4_dump ==
    /\ At(4, "dump")
    /\ fs' = Written(fs, ORIGIN_SEGMENT_DIR, i,
                     SegmentRecord(url_i, Load(fs, ORIGIN_BODY_DIR, i)))
    /\ NextOrigin
    /\ Goto("loop")

step_4_return == At(4, "loop") /\ LoopDone /\ Return /\ UNCHANGED fs

\* -------------------------------------------------------------- step 5
\* open(args.nlcd_conf_file), json.load
step_5_conf ==
    /\ At(5, "conf")
    /\ IF args.nlcd_conf_file = "valid"
       THEN Goto("read") /\ UNCHANGED <<fs, Locals>>
       ELSE Raise /\ UNCHANGED <<fs, Locals>>

step_5_read == ReadStep(5, "clean")

step_5_clean == CleanStep(5, ORIGIN_GSE_DIR, "loop")

\* The list step 5 writes for an origin with these segments.
origin_gse(segments) ==
    [n \in 1..Len(segments) |->
        [segment |-> segments[n], foundItems |-> find_results(segments[n])]]

\* open(i_segment_fp), json.load, open(o_gse_fp, "wb")
step_5_open ==
    /\ At(5, "loop")
    /\ ~LoopDone
    /\ IF Loadable(fs, ORIGIN_SEGMENT_DIR, i)
       THEN /\ fs' = Opened(fs, ORIGIN_GSE_DIR, i)
            /\ Goto("dump")
            /\ UNCHANGED Locals
       ELSE Raise /\ UNCHANGED <<fs, Locals>>

step_5_dump ==
    /\ At(5, "dump")
    /\ fs' = Written(fs, ORIGIN_GSE_DIR, i,
                     origin_gse(Load(fs, ORIGIN_SEGMENT_DIR, i).segments))
    /\ NextOrigin
    /\ Goto("loop")

step_5_return == At(5, "loop") /\ LoopDone /\ Return /\ UNCHANGED fs

\* -------------------------------------------------------------- step 6
\* Blacklist.load(Blacklist.BLACK_DOM), and "item_url in black_domains"
BLACK_DOM == {"ub"}

Blacklisted(u) == u \in BLACK_DOM

\* TextUtil.fuzzy_search(body, segment, fuzzy_pattern): a ratio in [0,1], in
\* tenths, and the matched text.
fuzzy_ratio(body, segment) ==
    CASE body = "body_1" /\ segment = "ab" -> 6
      [] body = "body_1" /\ segment = "cd" -> 2
      [] body = "body_2" /\ segment = "ab" -> 5
      [] body = "body_2" /\ segment = "cd" -> 10
      [] OTHER -> 0

fuzzy_search(body, segment, fuzzy_pattern) ==
    [ratio |-> fuzzy_ratio(body, segment),
     match |-> IF fuzzy_ratio(body, segment) > 0 THEN fuzzy_pattern.segment ELSE ""]

\* TextUtil.compile_fuzzy_patterns(uniq_segments): one pattern per segment.
compile_fuzzy_patterns(segments) == [s \in segments |-> [segment |-> s]]

\* The three maps and the set of one origin, before its first segment entry.
NoRelated ==
    [related_url2gse |-> <<>>, related_url2segm |-> <<>>,
     related_url2html |-> <<>>, uniq_segments |-> {}]

\* One round of the loop over segment_entry["foundItems"], told as the variant
\* that keeps the last annotation seen for a url.
AddItemLast(r, segment_text, gse_found_item) ==
    LET item_url == gse_found_item.link IN
    IF Blacklisted(item_url) THEN r
    ELSE [r EXCEPT
            !.related_url2gse = (item_url :> gse_found_item) @@ @,
            !.related_url2segm =
                IF item_url \notin DOMAIN @
                THEN @ @@ (item_url :> {segment_text})
                ELSE [@ EXCEPT ![item_url] = @ \cup {segment_text}],
            !.related_url2html =
                IF item_url \notin DOMAIN @ THEN @ @@ (item_url :> None) ELSE @]

\* ... and as the variant without the blacklist test.
AddItemUnfiltered(r, segment_text, gse_found_item) ==
    LET item_url == gse_found_item.link IN
    [r EXCEPT
        !.related_url2gse =
            IF item_url \notin DOMAIN @ THEN @ @@ (item_url :> gse_found_item) ELSE @,
        !.related_url2segm =
            IF item_url \notin DOMAIN @
            THEN @ @@ (item_url :> {segment_text})
            ELSE [@ EXCEPT ![item_url] = @ \cup {segment_text}],
        !.related_url2html =
            IF item_url \notin DOMAIN @ THEN @ @@ (item_url :> None) ELSE @]

\* One round of the loop over segment_entry["foundItems"].
AddItem(r, segment_text, gse_found_item) ==
    LET item_url == gse_found_item.link IN
    IF Blacklisted(item_url) THEN r
    ELSE [r EXCEPT
            !.related_url2gse =
                IF item_url \notin DOMAIN @ THEN @ @@ (item_url :> gse_found_item) ELSE @,
            !.related_url2segm =
                IF item_url \notin DOMAIN @
                THEN @ @@ (item_url :> {segment_text})
                ELSE [@ EXCEPT ![item_url] = @ \cup {segment_text}],
            !.related_url2html =
                IF item_url \notin DOMAIN @ THEN @ @@ (item_url :> None) ELSE @]

\* The loop over the found items of one segment entry, from item n on.
RECURSIVE AddItems(_, _, _, _)
AddItems(r, segment_text, items, n) ==
    IF n > Len(items) THEN r
    ELSE AddItems(AddItem(r, segment_text, items[n]), segment_text, items, n + 1)

\* The loop over the segment entries of gse, told as the variant that puts
\* the segment as it was read into uniq_segments.
RECURSIVE AddSegmentsRaw(_, _, _)
AddSegmentsRaw(r, gse, n) ==
    IF n > Len(gse) THEN r
    ELSE LET segment_text == simplified_text(gse[n].segment)
             seen == [r EXCEPT !.uniq_segments = @ \cup {gse[n].segment}]
         IN AddSegmentsRaw(AddItems(seen, segment_text, gse[n].foundItems, 1), gse, n + 1)

\* The loop over the segment entries of gse, from entry n on.
RECURSIVE AddSegments(_, _, _)
AddSegments(r, gse, n) ==
    IF n > Len(gse) THEN r
    ELSE LET segment_text == simplified_text(gse[n].segment)
             seen == [r EXCEPT !.uniq_segments = @ \cup {segment_text}]
         IN AddSegments(AddItems(seen, segment_text, gse[n].foundItems, 1), gse, n + 1)

\* The maps as they stand when fetcher.fetch_urls is called.
Aggregate(gse) == AddSegments(NoRelated, gse, 1)

\* fetcher.fetch_urls(related_url2html): fills in the html of every key.
fetch_urls(related_url2html) == [u \in DOMAIN related_url2html |-> PageOf(u)]

\* The loop over the segments of one related url, from segment n on, told as
\* the variant that keeps the last ratio.
RECURSIVE MatchSegmentsLast(_, _, _, _, _)
MatchSegmentsLast(body, segments, fuzzy_patterns, n, acc) ==
    IF n > Len(segments) THEN acc
    ELSE LET found == fuzzy_search(body, segments[n], fuzzy_patterns[segments[n]])
         IN MatchSegmentsLast(body, segments, fuzzy_patterns, n + 1,
                [best_ratio |-> found.ratio,
                 matches |-> Append(acc.matches,
                                    [match |-> found.match, ratio |-> found.ratio])])

\* The loop over the segments of one related url, from segment n on.
RECURSIVE MatchSegments(_, _, _, _, _)
MatchSegments(body, segments, fuzzy_patterns, n, acc) ==
    IF n > Len(segments) THEN acc
    ELSE LET found == fuzzy_search(body, segments[n], fuzzy_patterns[segments[n]])
         IN MatchSegments(body, segments, fuzzy_patterns, n + 1,
                [best_ratio |-> IF found.ratio > acc.best_ratio
                                THEN found.ratio ELSE acc.best_ratio,
                 matches |-> Append(acc.matches,
                                    [match |-> found.match, ratio |-> found.ratio])])

\* best_ratio > 0.5
HighRatioThreshold == 5

highRatio(best_ratio) == best_ratio > HighRatioThreshold

\* The record appended to filtered_urls for one related url.
FilteredUrl(r, fuzzy_patterns, rel_url) ==
    LET html == r.related_url2html[rel_url]
        body == simplified_text(extract_body(rel_url, html).body)
        segments == SetToSeq(r.related_url2segm[rel_url])
        m == MatchSegments(body, segments, fuzzy_patterns, 1,
                           [best_ratio |-> 0, matches |-> <<>>])
    IN [url |-> rel_url,
        segments |-> segments,
        body |-> body,
        bestRatio |-> m.best_ratio,
        foundMatches |-> m.matches,
        highRatio |-> highRatio(m.best_ratio),
        gseData |-> r.related_url2gse[rel_url],
        html |-> html]

\* What one round of step 6's loop over the origins does with the list gse:
\* the urls it fetches, whether it raises, and the list it writes.
FilterOrigin(gse) ==
    LET a == Aggregate(gse)
        r == [a EXCEPT !.related_url2html = fetch_urls(a.related_url2html)]
        related_urls == SetToSeq(DOMAIN r.related_url2html)
        fuzzy_patterns == compile_fuzzy_patterns(r.uniq_segments)
        lookups == \A u \in DOMAIN r.related_url2html :
                      /\ u \in DOMAIN r.related_url2segm
                      /\ u \in DOMAIN r.related_url2gse
                      /\ r.related_url2segm[u] \subseteq DOMAIN fuzzy_patterns
        bodies == \A u \in DOMAIN r.related_url2html :
                      ~extract_body(u, r.related_url2html[u]).raised
    IN [fetched |-> DOMAIN a.related_url2html,
        raised |-> ~(lookups /\ bodies),
        filtered_urls |->
            IF lookups /\ bodies
            THEN [n \in 1..Len(related_urls) |->
                     FilteredUrl(r, fuzzy_patterns, related_urls[n])]
            ELSE <<>>]

step_6_read == ReadStep(6, "clean")

step_6_clean == CleanStep(6, RELATED_LINKS_DIR, "loop")

step_6_origin ==
    /\ At(6, "loop")
    /\ ~LoopDone
    /\ IF Loadable(fs, ORIGIN_GSE_DIR, i)
       THEN LET out == FilterOrigin(Load(fs, ORIGIN_GSE_DIR, i)) IN
            /\ fetched' = fetched \cup out.fetched
            /\ IF out.raised
               THEN Raised /\ UNCHANGED <<fs, Locals>>
               ELSE /\ fs' = Written(fs, RELATED_LINKS_DIR, i, out.filtered_urls)
                    /\ NextOrigin
                    /\ Going("loop")
       ELSE Raise /\ UNCHANGED <<fs, Locals>>

step_6_return == At(6, "loop") /\ LoopDone /\ Return /\ UNCHANGED fs

\* -------------------------------------------------------------- step 7
\* str.lower()
lower(text) ==
    CASE text = "Src" -> "src"
      [] text = "Ann" -> "ann"
      [] OTHER -> text

\* EntityExtractor.parse_article(url, html): raises on a page it cannot parse.
parse_article(u, html) ==
    [raised |-> html \in {"html_unparseable", None},
     article |-> [html |-> html,
                  text |-> CASE html = "html_1" -> "text_1"
                             [] html = "html_2" -> "text_2"
                             [] html = "html_3" -> "text_3"
                             [] OTHER -> ""]]

\* EntityExtractor.extract_titles(article)
extract_titles(article) ==
    [raised |-> article.html = "html_crash",
     titles |-> IF article.html = "html_notitle" THEN {}
                ELSE {"title", "subtitle"}]

\* EntityExtractor.extract_sources(annotation=gse_data)
extract_sources(annotation) ==
    [raised |-> annotation.snippet = "src_err",
     sources |-> <<"Src", "src">>]

\* normalizer.normalize_dates(extractor.extract_dates(annotation=gse_data))
normalize_dates(annotation) ==
    [raised |-> annotation.snippet = "date_err",
     dates |-> IF annotation.snippet = "no_date" THEN {}
               ELSE {20200502, 20200311, 20200401}]

\* normalizer.normalize_authors(extractor.extract_authors(article, gse_data))
normalize_authors(article, annotation) ==
    [raised |-> annotation.snippet = "auth_err",
     authors |-> <<"Ann", "ann">>]

\* min(dates)
Min(S) == CHOOSE x \in S : \A y \in S : x <= y

\* The body of the loop over link_entries, told as the variant without the
\* highRatio test.
LinkOutcomeAnyRatio(link_entry) ==
    IF Blacklisted(link_entry.url) THEN "skip"
    ELSE LET parsed == parse_article(link_entry.url, link_entry.html) IN
         IF parsed.raised THEN "skip"
         ELSE LET titles == extract_titles(parsed.article) IN
              IF titles.raised THEN "raise"
              ELSE IF Cardinality(titles.titles) = 0 THEN "skip"
              ELSE IF extract_sources(link_entry.gseData).raised THEN "raise"
              ELSE "append"

\* What the body of the loop over link_entries does with one entry: "skip"
\* (continue), "raise" (an exception leaves the function) or "append".
LinkOutcome(link_entry) ==
    IF ~link_entry.highRatio THEN "skip"
    ELSE IF Blacklisted(link_entry.url) THEN "skip"
    ELSE LET parsed == parse_article(link_entry.url, link_entry.html) IN
         IF parsed.raised THEN "skip"
         ELSE LET titles == extract_titles(parsed.article) IN
              IF titles.raised THEN "raise"
              ELSE IF Cardinality(titles.titles) = 0 THEN "skip"
              ELSE IF extract_sources(link_entry.gseData).raised THEN "raise"
              ELSE "append"

\* The record appended to output_data for an entry whose outcome is "append".
OutputRecord(link_entry, rel_id) ==
    LET article == parse_article(link_entry.url, link_entry.html).article
        gse_data == link_entry.gseData
        dates == normalize_dates(gse_data)
        authors == normalize_authors(article, gse_data)
    IN [id |-> rel_id,
        url |-> link_entry.url,
        text |-> article.text,
        title |-> SetToSeq(extract_titles(article).titles)[1],
        sources |-> SetToSeq({lower(x) : x \in Range(extract_sources(gse_data).sources)}),
        pub_date |-> IF dates.raised \/ dates.dates = {} THEN <<>>
                     ELSE <<Min(dates.dates)>>,
        authors |-> IF authors.raised THEN <<>>
                    ELSE SetToSeq({lower(x) : x \in Range(authors.authors)}),
        body |-> link_entry.body]

\* The loop over link_entries from entry n on, told as the variant that counts
\* every entry.
RECURSIVE ExtractLinksCountAll(_, _, _)
ExtractLinksCountAll(link_entries, n, acc) ==
    IF n > Len(link_entries) \/ acc.raised THEN acc
    ELSE LET oc == LinkOutcome(link_entries[n]) IN
         ExtractLinksCountAll(link_entries, n + 1,
            CASE oc = "skip" -> [acc EXCEPT !.annotation_id = @ + 1]
              [] oc = "raise" -> [acc EXCEPT !.raised = TRUE]
              [] OTHER ->
                   [annotation_id |-> acc.annotation_id + 1,
                    output_data |-> Append(acc.output_data,
                        OutputRecord(link_entries[n], acc.annotation_id)),
                    raised |-> FALSE])

\* The loop over link_entries from entry n on.
RECURSIVE ExtractLinks(_, _, _)
ExtractLinks(link_entries, n, acc) ==
    IF n > Len(link_entries) \/ acc.raised THEN acc
    ELSE LET oc == LinkOutcome(link_entries[n]) IN
         ExtractLinks(link_entries, n + 1,
            CASE oc = "skip" -> acc
              [] oc = "raise" -> [acc EXCEPT !.raised = TRUE]
              [] OTHER ->
                   [annotation_id |-> acc.annotation_id + 1,
                    output_data |-> Append(acc.output_data,
                        OutputRecord(link_entries[n], acc.annotation_id)),
                    raised |-> FALSE])

\* One round of step 7's loop over the origins: annotation_id = 1,
\* output_data = [], then the loop over link_entries.
ExtractOrigin(link_entries) ==
    ExtractLinks(link_entries, 1,
                 [annotation_id |-> 1, output_data |-> <<>>, raised |-> FALSE])

step_7_read == ReadStep(7, "clean")

step_7_clean == CleanStep(7, CROSSREF_IN_DATA_DIR, "loop")

step_7_origin ==
    /\ At(7, "loop")
    /\ ~LoopDone
    /\ IF /\ Loadable(fs, RELATED_LINKS_DIR, i)
          /\ ~ExtractOrigin(Load(fs, RELATED_LINKS_DIR, i)).raised
       THEN /\ fs' = Written(fs, CROSSREF_IN_DATA_DIR, i,
                             ExtractOrigin(Load(fs, RELATED_LINKS_DIR, i)).output_data)
            /\ NextOrigin
            /\ Goto("loop")
       ELSE Raise /\ UNCHANGED <<fs, Locals>>

step_7_return == At(7, "loop") /\ LoopDone /\ Return /\ UNCHANGED fs

\* -------------------------------------------------------------- step 8
\* The windowed-overlap test of two entries' texts: symmetric.
overlap(text_a, text_b) == {text_a, text_b} \subseteq {"text_1", "text_2"}

\* ReferenceIndex.find_cross_references(sent_window_size=3): one pair of
\* ref_ids for every unordered pair of distinct entries that overlap.
find_cross_references(entries) ==
    SetToSeq({<<entries[p].id, entries[q].id>> : <<p, q>> \in
                 {pq \in (1..Len(entries)) \X (1..Len(entries)) :
                     pq[1] < pq[2] /\ overlap(entries[pq[1]].text, entries[pq[2]].text)}})

\* ReferenceIndex.iterentries(): every entry of the index.
iterentries(entries) == entries

\* The node written for one entry.
GraphNode(entry) ==
    [refId |-> entry.id, url |-> entry.url, text |-> entry.text,
     title |-> entry.title, sources |-> entry.sources, pubDate |-> entry.pub_date,
     authors |-> entry.authors, body |-> entry.body]

\* graph_nodes, told as the variant that keeps only the ends of edges.
graph_nodes_linked(entries) ==
    LET linked == UNION {{e[1], e[2]} : e \in Range(find_cross_references(entries))}
        last(id) == CHOOSE n \in 1..Len(entries) : entries[n].id = id
    IN [id \in linked |-> GraphNode(entries[last(id)])]

\* graph_nodes after the loop over ref_index.iterentries(): a later entry
\* with the same ref_id replaces an earlier one.
graph_nodes(entries) ==
    LET all == iterentries(entries)
        last(id) == CHOOSE n \in 1..Len(all) :
                       all[n].id = id /\ \A m \in (n + 1)..Len(all) : all[m].id # id
    IN [id \in {all[n].id : n \in 1..Len(all)} |-> GraphNode(all[last(id)])]

\* graph_edges, told as the variant that appends each pair in both directions.
graph_edges_both(entries) ==
    LET found_links == find_cross_references(entries)
    IN [n \in 1..(2 * Len(found_links)) |->
           IF n <= Len(found_links) THEN found_links[n]
           ELSE <<found_links[n - Len(found_links)][2],
                  found_links[n - Len(found_links)][1]>>]

\* graph_edges after the loop over found_links
graph_edges(entries) ==
    LET found_links == find_cross_references(entries)
    IN [n \in 1..Len(found_links) |-> found_links[n]]

\* The graph step 8 writes for one origin's articles.
Graph(articles) == [nodes |-> graph_nodes(articles), edges |-> graph_edges(articles)]

step_8_clean == CleanStep(8, CROSSREF_OUT_DATA_DIR, "read")

\* open(origins_fl).read().rstrip().split("\n")
step_8_read == ReadStep(8, "loop")

step_8_origin ==
    /\ At(8, "loop")
    /\ ~LoopDone
    /\ IF Loadable(fs, CROSSREF_IN_DATA_DIR, i)
       THEN /\ fs' = Written(fs, CROSSREF_OUT_DATA_DIR, i,
                             Graph(Load(fs, CROSSREF_IN_DATA_DIR, i)))
            /\ NextOrigin
            /\ Goto("loop")
       ELSE Raise /\ UNCHANGED <<fs, Locals>>

step_8_return == At(8, "loop") /\ LoopDone /\ Return /\ UNCHANGED fs

\* -------------------------------------------------------------- step 9
step_9_read == ReadStep(9, "loop")

\* Reads the origin's graph and renders it; the rendering library may raise
\* (its centre node need not be in the graph).  Nothing is written.
step_9_origin ==
    /\ At(9, "loop")
    /\ ~LoopDone
    /\ \E shown \in BOOLEAN :
          IF Loadable(fs, CROSSREF_OUT_DATA_DIR, i) /\ shown
          THEN NextOrigin /\ Goto("loop") /\ UNCHANGED fs
          ELSE Raise /\ UNCHANGED <<fs, Locals>>

step_9_return == At(9, "loop") /\ LoopDone /\ Return /\ UNCHANGED fs

\* ------------------------------------------------- the process and its runs
\* The process is killed inside a stage.
Crash ==
    /\ status = "running"
    /\ pc # "driver"
    /\ status' = "crashed"
    /\ UNCHANGED <<args, origins_file, fs, step_i, pc, Locals, started, fetched, runs>>

\* The same command line is executed again over the work directory as it is.
Rerun ==
    /\ status \in {"done", "raised", "crashed"}
    /\ Len(runs) + 1 < MaxRuns
    /\ runs' = Append(runs, status)
    /\ status' = "running"
    /\ step_i' = 1
    /\ pc' = "driver"
    /\ started' = <<>>
    /\ fetched' = {}
    /\ ResetLocals
    /\ UNCHANGED <<args, origins_file, fs>>

\* ------------------------------------------------------ initial states
\* The value the stage that writes directory d computes for the origin with
\* url u from the value of its input file.
StageValue(d, u, input) ==
    CASE d = ORIGIN_BODY_DIR -> BodyRecord(u, input)
      [] d = ORIGIN_SEGMENT_DIR -> SegmentRecord(u, input)
      [] d = ORIGIN_GSE_DIR -> origin_gse(input.segments)
      [] d = RELATED_LINKS_DIR -> FilterOrigin(input).filtered_urls
      [] d = CROSSREF_IN_DATA_DIR -> ExtractOrigin(input).output_data
      [] OTHER -> Graph(input)

\* What an uninterrupted run of the stages up to the one that writes directory
\* d leaves in the file of an origin with url u.
CheckpointOf(d, u) ==
    LET html == PageOf(u)
        body_obj == BodyRecord(u, html)
        segm == SegmentRecord(u, body_obj)
        gse == origin_gse(segm.segments)
        links == FilterOrigin(gse).filtered_urls
        articles == ExtractOrigin(links).output_data
    IN CASE d = ORIGIN_HTML_DIR -> File(html)
         [] d = ORIGIN_BODY_DIR -> File(body_obj)
         [] d = ORIGIN_SEGMENT_DIR -> File(segm)
         [] d = ORIGIN_GSE_DIR -> File(gse)
         [] d = RELATED_LINKS_DIR -> File(links)
         [] d = CROSSREF_IN_DATA_DIR -> File(articles)
         [] OTHER -> File(Graph(articles))

\* The origins of an earlier, complete run over the same work directory.
OldOrigins == [n \in 1..(MaxOrigins + 1) |-> IF n % 2 = 1 THEN "ob" ELSE "oa"]

\* The work directory that run left.
OldWorkDir ==
    [exists |-> TRUE,
     origin_url |-> File(OldOrigins),
     dirs |-> [d \in Dirs |->
                [exists |-> TRUE,
                 files |-> [n \in 0..(Len(OldOrigins) - 1) |->
                              CheckpointOf(d, OldOrigins[n + 1])]]]]

OriginLists == UNION {[1..n -> OriginUrls] : n \in 1..MaxOrigins}

\* The work directory a run finds: none, the one an earlier run left, or that
\* one with the origins file replaced by the current one.
WorkDirs(lines) ==
    {NoWorkDir, OldWorkDir, [OldWorkDir EXCEPT !.origin_url = File(lines)]}

Start ==
    /\ status = "running"
    /\ step_i = 1
    /\ pc = "driver"
    /\ i = 0
    /\ origins = <<>>
    /\ origin_responses = <<>>
    /\ started = <<>>
    /\ fetched = {}
    /\ runs = <<>>

Init ==
    /\ args \in [first_step : 1..NumSteps, last_step : 1..DefaultLastStep,
                  nlcd_conf_file : {"valid", "missing"}]
    /\ origins_file \in OriginLists
    /\ fs \in WorkDirs(origins_file)
    /\ Start

Driver == DriverSkip \/ DriverStart \/ DriverExit

Stages ==
    \/ step_1_clean \/ step_1_copy
    \/ step_2_clean \/ step_2_fetch \/ step_2_write \/ step_2_return
    \/ step_3_read \/ step_3_clean \/ step_3_origin \/ step_3_return
    \/ step_4_read \/ step_4_clean \/ step_4_open \/ step_4_dump \/ step_4_return
    \/ step_5_conf \/ step_5_read \/ step_5_clean \/ step_5_open \/ step_5_dump
    \/ step_5_return
    \/ step_6_read \/ step_6_clean \/ step_6_origin \/ step_6_return
    \/ step_7_read \/ step_7_clean \/ step_7_origin \/ step_7_return
    \/ step_8_clean \/ step_8_read \/ step_8_origin \/ step_8_return
    \/ step_9_read \/ step_9_origin \/ step_9_return

Next == Driver \/ Stages

Spec == Init /\ [][Next]_vars

\* One stage, executed again after it ended, raised or was killed.
InitRerun == Init /\ args.first_step = args.last_step

NextRerun == Driver \/ Stages \/ Crash \/ Rerun

SpecRerun == InitRerun /\ [][NextRerun]_vars

\* ------------------------------------- step 6 over any search results
\* A search checkpoint told as a flat list of tokens: a token with no link
\* opens the entry of a segment, any other token is an item found for the
\* segment of the entry open at that place.
RawSegments == {"Ab", "ab", "cd"}

Tokens ==
    {[segment |-> x, link |-> "", snippet |-> ""] : x \in RawSegments}
    \cup {[segment |-> "", link |-> u, snippet |-> "x"] : u \in Urls}
    \cup {[segment |-> "", link |-> "u1", snippet |-> "y"]}

RECURSIVE GseOf(_, _, _)
GseOf(tokens, n, gse) ==
    IF n > Len(tokens) THEN gse
    ELSE GseOf(tokens, n + 1,
            IF tokens[n].link = ""
            THEN Append(gse, [segment |-> tokens[n].segment, foundItems |-> <<>>])
            ELSE [gse EXCEPT ![Len(gse)].foundItems =
                     Append(@, Item(tokens[n].link, tokens[n].snippet))])

GseLists ==
    {GseOf(t, 1, <<>>) : t \in
        {x \in UNION {[1..n -> Tokens] : n \in 0..MaxTokens} :
            Len(x) = 0 \/ x[1].link = ""}}

\* A work directory holding the origins file of one origin and, in
\* directory d, the checkpoint files of the origins from 0 on.
WorkDirWith(lines, d, values) ==
    [exists |-> TRUE,
     origin_url |-> File(lines),
     dirs |-> [e \in Dirs |->
                IF e = d
                THEN [exists |-> TRUE,
                      files |-> [n \in 0..(Len(values) - 1) |-> File(values[n + 1])]]
                ELSE NoDir]]

InitVerify ==
    /\ args = [first_step |-> 6, last_step |-> 6, nlcd_conf_file |-> "valid"]
    /\ origins_file = <<"oa">>
    /\ \E gse \in GseLists : fs = WorkDirWith(origins_file, ORIGIN_GSE_DIR, <<gse>>)
    /\ Start

NextVerify ==
    Driver \/ step_6_read \/ step_6_clean \/ step_6_origin \/ step_6_return

SpecVerify == InitVerify /\ [][NextVerify]_vars

\* ------------------------------- step 7 over any verification records
\* A record of the verification checkpoint; its body names the case.
LinkEntry(u, high, html, snippet, body) ==
    [url |-> u, segments |-> <<"ab">>, body |-> body,
     bestRatio |-> IF body = "low" THEN 10 ELSE 6,
     foundMatches |-> <<[match |-> "ab", ratio |-> 6]>>,
     highRatio |-> high, gseData |-> Item(u, snippet), html |-> html]

LinkEntries ==
    {LinkEntry("u1", TRUE, "html_1", "x", "good"),
     LinkEntry("u2", TRUE, "html_2", "x", "good2"),
     LinkEntry("u1", FALSE, "html_1", "x", "low"),
     LinkEntry("ub", TRUE, "html_1", "x", "black"),
     LinkEntry("u1", TRUE, "html_unparseable", "x", "unparseable"),
     LinkEntry("u1", TRUE, "html_notitle", "x", "notitle"),
     LinkEntry("u1", TRUE, "html_crash", "x", "crash"),
     LinkEntry("u1", TRUE, "html_1", "src_err", "src_err"),
     LinkEntry("u1", TRUE, "html_1", "date_err", "date_err"),
     LinkEntry("u1", TRUE, "html_1", "no_date", "no_date"),
     LinkEntry("u1", TRUE, "html_1", "auth_err", "auth_err")}

\* Two origins; the records of at most MaxLinks candidates, cut in two.
InitExtract ==
    /\ args = [first_step |-> 7, last_step |-> 7, nlcd_conf_file |-> "valid"]
    /\ origins_file = <<"oa", "ob">>
    /\ \E links \in UNION {[1..n -> LinkEntries] : n \in 0..MaxLinks} :
          \E cut \in 0..Len(links) :
              fs = WorkDirWith(origins_file, RELATED_LINKS_DIR,
                               <<SubSeq(links, 1, cut),
                                 SubSeq(links, cut + 1, Len(links))>>)
    /\ Start

NextExtract ==
    Driver \/ step_7_read \/ step_7_clean \/ step_7_origin \/ step_7_return

SpecExtract == InitExtract /\ [][NextExtract]_vars

\* ------------------------------------- step 8 over any extracted entries
\* The entries step 7 extracts from at most MaxEntries candidates.
EntryLists ==
    {ExtractOrigin(links).output_data : links \in
        UNION {[1..n ->
                  {LinkEntry("u1", TRUE, "html_1", "x", "good"),
                   LinkEntry("u2", TRUE, "html_2", "x", "good2"),
                   LinkEntry("u3", TRUE, "html_3", "no_date", "good3"),
                   LinkEntry("u1", FALSE, "html_1", "x", "low")}] : n \in 0..MaxEntries}}

InitGraph ==
    /\ args = [first_step |-> 8, last_step |-> 8, nlcd_conf_file |-> "valid"]
    /\ origins_file = <<"oa">>
    /\ \E articles \in EntryLists :
          fs = WorkDirWith(origins_file, CROSSREF_IN_DATA_DIR, <<articles>>)
    /\ Start

NextGraph ==
    Driver \/ step_8_clean \/ step_8_read \/ step_8_origin \/ step_8_return

SpecGraph == InitGraph /\ [][NextGraph]_vars

\* ===================================================================
\* C1: a run starts exactly the stages first_step..last_step, in increasing
\* order and one at a time (a stage is announced only from the driver loop,
\* after the stage before it returned); the work directory changes only
\* inside a stage of the range; after a stage raised nothing is started.
\* (C1_RangeOnly is the formula.)
StagesUpTo(s) ==
    {n \in 1..NumSteps : args.first_step <= n /\ n <= args.last_step /\ n <= s}

C1_StartedInOrder ==
    /\ \A n \in 1..Len(started) : started[n] = args.first_step + n - 1
    /\ \A n \in 1..Len(started) : started[n] <= args.last_step
    /\ pc = "driver" => Range(started) = StagesUpTo(step_i - 1)
    /\ pc # "driver" => Range(started) = StagesUpTo(step_i)
    /\ status = "done" => Range(started) = StagesUpTo(NumSteps)
    /\ status = "raised" => pc # "driver" /\ started[Len(started)] = step_i

C1_Step ==
    /\ (fs' # fs) =>
          (pc # "driver" /\ args.first_step <= step_i /\ step_i <= args.last_step)
    /\ (started' # started) =>
          (/\ status = "running" /\ pc = "driver"
           /\ started' = Append(started, step_i)
           /\ \A n \in 1..Len(started) : started[n] < step_i)
    /\ (status = "raised") => (started' = started /\ fs' = fs)

\* C1: the stages a run starts are exactly first_step..last_step, each once
\* and in increasing order; no stage outside the range starts or touches
\* the working directory, and nothing starts after a stage has raised.
C1_RangeOnly == []C1_StartedInOrder /\ [][C1_Step]_vars

C1_Witness ==
    /\ status = "done"
    /\ args.first_step = 3 /\ args.last_step = 6
    /\ started = <<3, 4, 5, 6>>
    /\ fs.dirs[RELATED_LINKS_DIR].files # OldWorkDir.dirs[RELATED_LINKS_DIR].files

\* C2 (as claimed): inside the loop over the origins of a per-origin stage an
\* exception leaves the stage only when the origin's input checkpoint cannot
\* be read; a failure of processing the origin is caught.
C2_OriginFailureCaught ==
    (status = "raised" /\ step_i \in 3..8 /\ pc = "loop")
        => ~Loadable(fs, step_i - 1, i)

Occurrences(gse, u) ==
    {p \in (1..Len(gse)) \X (1..MaxTokens) :
        p[2] <= Len(gse[p[1]].foundItems) /\ gse[p[1]].foundItems[p[2]].link = u}

FirstOccurrence(gse, u) ==
    CHOOSE p \in Occurrences(gse, u) :
        \A q \in Occurrences(gse, u) :
            p[1] < q[1] \/ (p[1] = q[1] /\ p[2] <= q[2])

FoundUrls(gse) ==
    {gse[p[1]].foundItems[p[2]].link : p \in
        {q \in (1..Len(gse)) \X (1..MaxTokens) : q[2] <= Len(gse[q[1]].foundItems)}}

\* The origins whose verification record is on disk beside its search record.
Verified ==
    {n \in DOMAIN fs.dirs[RELATED_LINKS_DIR].files :
        Loadable(fs, RELATED_LINKS_DIR, n) /\ Loadable(fs, ORIGIN_GSE_DIR, n)}

\* C4: in the list step 6 writes for an origin, every url found and not
\* blacklisted has exactly one record and there is no other record; the
\* record's segments are, without repetition, the simplified segments of the
\* entries that found the url, and its gseData is the item at the first
\* place of the url in the search checkpoint.
C4_Dedup ==
    \A n \in Verified :
        LET gse == Load(fs, ORIGIN_GSE_DIR, n)
            out == Load(fs, RELATED_LINKS_DIR, n)
        IN /\ \A u \in FoundUrls(gse) \ BLACK_DOM :
                 Cardinality({k \in 1..Len(out) : out[k].url = u}) = 1
           /\ \A k \in 1..Len(out) :
                 /\ out[k].url \in FoundUrls(gse) \ BLACK_DOM
                 /\ Range(out[k].segments) =
                       {simplified_text(gse[p[1]].segment) :
                           p \in Occurrences(gse, out[k].url)}
                 /\ Len(out[k].segments) = Cardinality(Range(out[k].segments))
                 /\ LET p == FirstOccurrence(gse, out[k].url)
                    IN out[k].gseData = gse[p[1]].foundItems[p[2]]

C4_Witness ==
    /\ status = "done"
    /\ \E n \in Verified :
          LET gse == Load(fs, ORIGIN_GSE_DIR, n)
              out == Load(fs, RELATED_LINKS_DIR, n)
          IN \E k \in 1..Len(out) :
                /\ Len(out[k].segments) = 2
                /\ \E p \in Occurrences(gse, out[k].url) :
                      gse[p[1]].foundItems[p[2]] # out[k].gseData

\* C5: no url handed to fetch_urls is blacklisted, and no record step 6
\* writes has a blacklisted url.
C5_NoBlacklisted ==
    /\ \A u \in fetched : u \notin BLACK_DOM
    /\ \A n \in Verified :
          \A k \in 1..Len(Load(fs, RELATED_LINKS_DIR, n)) :
              Load(fs, RELATED_LINKS_DIR, n)[k].url \notin BLACK_DOM

C5_Witness ==
    /\ fetched # {}
    /\ \E n \in Verified :
          /\ FoundUrls(Load(fs, ORIGIN_GSE_DIR, n)) \cap BLACK_DOM # {}
          /\ Len(Load(fs, RELATED_LINKS_DIR, n)) > 0

\* C6: in every record step 6 writes, highRatio is bestRatio > 0.5, bestRatio
\* is the greatest ratio of foundMatches, and every ratio is in [0,1].
C6_Threshold ==
    \A n \in Verified :
        \A k \in 1..Len(Load(fs, RELATED_LINKS_DIR, n)) :
            LET rec == Load(fs, RELATED_LINKS_DIR, n)[k]
                ratios == {rec.foundMatches[m].ratio : m \in 1..Len(rec.foundMatches)}
            IN /\ rec.highRatio = (rec.bestRatio > HighRatioThreshold)
               /\ rec.bestRatio \in ratios
               /\ \A x \in ratios : x <= rec.bestRatio /\ 0 <= x /\ x <= 10

C6_Witness ==
    \E n \in Verified :
        LET out == Load(fs, RELATED_LINKS_DIR, n) IN
        \E k \in 1..Len(out) :
            /\ out[k].highRatio
            /\ Len(out[k].foundMatches) = 2
            /\ out[k].foundMatches[1].ratio # out[k].foundMatches[2].ratio
            /\ out[k].foundMatches[1].ratio > 0
            /\ out[k].foundMatches[2].ratio > 0

\* The origins whose extraction record is on disk beside its verification
\* record.
Extracted ==
    {n \in DOMAIN fs.dirs[CROSSREF_IN_DATA_DIR].files :
        Loadable(fs, CROSSREF_IN_DATA_DIR, n) /\ Loadable(fs, RELATED_LINKS_DIR, n)}

\* C7: every entry step 7 writes is the entry of a verification record with
\* highRatio true and a url that is not blacklisted, and no record with
\* highRatio false or a blacklisted url has an entry.
C7_OnlyHighRatio ==
    \A n \in Extracted :
        LET in == Load(fs, RELATED_LINKS_DIR, n)
            out == Load(fs, CROSSREF_IN_DATA_DIR, n)
        IN /\ \A k \in 1..Len(out) :
                 \E m \in 1..Len(in) :
                     /\ in[m].body = out[k].body /\ in[m].url = out[k].url
                     /\ in[m].highRatio
                     /\ in[m].url \notin BLACK_DOM
           /\ \A m \in 1..Len(in) :
                 (~in[m].highRatio \/ in[m].url \in BLACK_DOM) =>
                     \A k \in 1..Len(out) : out[k].body # in[m].body

C7_Witness ==
    \E n \in Extracted :
        LET in == Load(fs, RELATED_LINKS_DIR, n)
            out == Load(fs, CROSSREF_IN_DATA_DIR, n)
        IN /\ Len(out) = 1
           /\ \E m \in 1..Len(in) : ~in[m].highRatio
           /\ \E m \in 1..Len(in) : in[m].highRatio /\ in[m].url \in BLACK_DOM

\* C8: in the list step 7 writes for an origin, the k-th entry has id k,
\* for every origin: ids start at 1, have no gap and no repetition, and a
\* skipped candidate takes none.
C8_SequentialIds ==
    \A n \in Extracted :
        LET in == Load(fs, RELATED_LINKS_DIR, n)
            out == Load(fs, CROSSREF_IN_DATA_DIR, n)
        IN /\ \A k \in 1..Len(out) : out[k].id = k
           /\ Len(out) <= Len(in)

C8_Witness ==
    /\ status = "done"
    /\ Extracted = {0, 1}
    /\ Len(Load(fs, RELATED_LINKS_DIR, 0)) = 2
    /\ Len(Load(fs, CROSSREF_IN_DATA_DIR, 0)) = 1
    /\ Load(fs, RELATED_LINKS_DIR, 0)[1].body # Load(fs, CROSSREF_IN_DATA_DIR, 0)[1].body
    /\ Len(Load(fs, CROSSREF_IN_DATA_DIR, 1)) = 1
    /\ Load(fs, CROSSREF_IN_DATA_DIR, 1)[1].id = 1

\* C9 (as claimed): in step 7's loop no failure of a collaborator call on a
\* candidate leaves the stage; an exception leaves it only when the origin's
\* verification record cannot be read.
C9_CandidateFailureCaught ==
    (status = "raised" /\ step_i = 7 /\ pc = "loop")
        => ~Loadable(fs, RELATED_LINKS_DIR, i)

\* The four failures C9 lists, which the code does contain: a page that
\* cannot be parsed or has no title has no entry; a date failure leaves
\* pub_date absent and an author failure leaves authors empty.
C9_ListedFailures ==
    \A n \in Extracted :
        LET out == Load(fs, CROSSREF_IN_DATA_DIR, n) IN
        \A k \in 1..Len(out) :
            /\ out[k].body \notin {"unparseable", "notitle"}
            /\ out[k].body \in {"date_err", "no_date"} => out[k].pub_date = <<>>
            /\ out[k].body = "auth_err" => out[k].authors = <<>>
            /\ out[k].body = "good" =>
                  out[k].pub_date = <<20200311>> /\ out[k].authors = <<"ann">>

\* C10: in every graph step 8 writes, no edge joins an entry to itself, both
\* ends of every edge are keys of nodes, and no unordered pair is an edge
\* twice.
C10_EdgesWellFormed ==
    \A n \in DOMAIN fs.dirs[CROSSREF_OUT_DATA_DIR].files :
        Loadable(fs, CROSSREF_OUT_DATA_DIR, n) =>
            LET graph == Load(fs, CROSSREF_OUT_DATA_DIR, n) IN
            \A p \in 1..Len(graph.edges) :
                /\ graph.edges[p][1] # graph.edges[p][2]
                /\ graph.edges[p][1] \in DOMAIN graph.nodes
                /\ graph.edges[p][2] \in DOMAIN graph.nodes
                /\ \A q \in 1..Len(graph.edges) :
                      q # p => {graph.edges[q][1], graph.edges[q][2]}
                                 # {graph.edges[p][1], graph.edges[p][2]}

C10_Witness ==
    /\ status = "done"
    /\ Loadable(fs, CROSSREF_OUT_DATA_DIR, 0)
    /\ Len(Load(fs, CROSSREF_OUT_DATA_DIR, 0).edges) = 3
    /\ DOMAIN Load(fs, CROSSREF_OUT_DATA_DIR, 0).nodes = {1, 2, 3}

\* The origins whose graph is on disk beside their extraction record.
Graphed ==
    {n \in DOMAIN fs.dirs[CROSSREF_OUT_DATA_DIR].files :
        Loadable(fs, CROSSREF_OUT_DATA_DIR, n) /\ Loadable(fs, CROSSREF_IN_DATA_DIR, n)}

\* The ref_ids that are an end of some edge of a graph.
EdgeEnds(graph) ==
    UNION {{graph.edges[p][1], graph.edges[p][2]} : p \in 1..Len(graph.edges)}

\* C11: in every graph step 8 writes for an origin, the keys of nodes are
\* exactly the ids of the origin's extracted entries, there are as many nodes
\* as entries, and each node is the node of the entry with its id; an entry
\* that is an end of no edge has its node too.
C11_EveryEntryIsNode ==
    \A n \in Graphed :
        LET articles == Load(fs, CROSSREF_IN_DATA_DIR, n)
            graph == Load(fs, CROSSREF_OUT_DATA_DIR, n)
        IN /\ DOMAIN graph.nodes = {articles[k].id : k \in 1..Len(articles)}
           /\ Cardinality(DOMAIN graph.nodes) = Len(articles)
           /\ \A k \in 1..Len(articles) :
                 /\ graph.nodes[articles[k].id].refId = articles[k].id
                 /\ graph.nodes[articles[k].id].body = articles[k].body

C11_Witness ==
    /\ status = "done"
    /\ 0 \in Graphed
    /\ LET graph == Load(fs, CROSSREF_OUT_DATA_DIR, 0)
       IN /\ Len(graph.edges) = 1
          /\ DOMAIN graph.nodes = {1, 2, 3}
          /\ DOMAIN graph.nodes \ EdgeEnds(graph) # {}

\* The run's range includes step 5 and the configuration file cannot be loaded.
ConfigMissing ==
    /\ args.nlcd_conf_file = "missing"
    /\ InRange(5)

\* C12 (as claimed): when the range of the run includes step 5 and the
\* configuration file cannot be loaded, no step of the run changes the
\* working directory: nothing is cleared, created or written.
C12_ConfigAbortsBeforeWork == [][ConfigMissing => fs' = fs]_vars

\* What the code does give: step 5 itself changes nothing when the
\* configuration cannot be loaded, and no later stage starts.
C12_DiscoveryLeavesNoTrace ==
    [][(ConfigMissing /\ step_i >= 5) => (fs' = fs /\ \A n \in Range(started') : n <= 5)]_vars

\* C13: for the search checkpoint of every origin, the three maps of step 6
\* have the same keys when its aggregation loop ends, every segment set is
\* non-empty and within uniq_segments; the lookups of the matching loop do not
\* miss: step 6 raises on a readable checkpoint only where extract_body does,
\* and the records it writes are those of the maps' keys.
C13_MapsAgree ==
    /\ \A n \in DOMAIN fs.dirs[ORIGIN_GSE_DIR].files :
          Loadable(fs, ORIGIN_GSE_DIR, n) =>
              LET r == Aggregate(Load(fs, ORIGIN_GSE_DIR, n)) IN
              /\ DOMAIN r.related_url2gse = DOMAIN r.related_url2segm
              /\ DOMAIN r.related_url2segm = DOMAIN r.related_url2html
              /\ \A u \in DOMAIN r.related_url2segm :
                    /\ r.related_url2segm[u] # {}
                    /\ r.related_url2segm[u] \subseteq r.uniq_segments
                    /\ r.related_url2segm[u] \subseteq
                          DOMAIN compile_fuzzy_patterns(r.uniq_segments)
              /\ n \in Verified =>
                    LET out == Load(fs, RELATED_LINKS_DIR, n) IN
                    /\ {out[k].url : k \in 1..Len(out)} = DOMAIN r.related_url2html
                    /\ \A k \in 1..Len(out) :
                          /\ Range(out[k].segments) = r.related_url2segm[out[k].url]
                          /\ Len(out[k].foundMatches) = Len(out[k].segments)
                          /\ out[k].gseData = r.related_url2gse[out[k].url]
    /\ (status = "raised" /\ step_i = 6 /\ pc = "loop" /\ Loadable(fs, ORIGIN_GSE_DIR, i)) =>
          \E u \in DOMAIN Aggregate(Load(fs, ORIGIN_GSE_DIR, i)).related_url2html :
              extract_body(u, PageOf(u)).raised

\* A url found by two segments, one of them written with capitals, beside a
\* blacklisted url and a segment that found nothing.
C13_Witness ==
    /\ status = "done"
    /\ 0 \in Verified
    /\ LET r == Aggregate(Load(fs, ORIGIN_GSE_DIR, 0))
       IN /\ \E u \in DOMAIN r.related_url2segm : Cardinality(r.related_url2segm[u]) = 2
          /\ \E x \in Range(Load(fs, ORIGIN_GSE_DIR, 0)) :
                simplified_text(x.segment) # x.segment
          /\ Len(Load(fs, RELATED_LINKS_DIR, 0)) > 0

\* Every checkpoint directory but stage k's own is as it was.
OthersUnchanged(k) == \A d \in Dirs \ {k} : fs'.dirs[d] = fs.dirs[d]

\* C14 (as claimed): a run of the single stage k, for every k in 1..9, changes
\* no checkpoint directory but the one stage k writes.
C14_SingleStageFrame == [][OthersUnchanged(args.first_step)]_vars

\* What the code does give: every stage but the first changes only its own
\* directory and leaves the origins file alone.
C14_LaterStagesFrame ==
    [][args.first_step > 1 =>
         (OthersUnchanged(args.first_step) /\ fs'.origin_url = fs.origin_url)]_vars

=============================================================================
